---- MODULE Spec2Model ----
(***************************************************************************)
(* Model of the ranking engine of BizFinder (src/semantic_filter.py).      *)
(*                                                                         *)
(* Text.  A Python str is a sequence of characters.  The characters of the *)
(* Korean words the code names are written one romanised syllable per      *)
(* character ("jeon","buk" is the two-character word 전북); " ", "," and   *)
(* "." are the separators and "K"/"k" is a cased Latin letter.             *)
(* Numbers.  A score is an integer number of hundredths (0.2 is 20,        *)
(* 1.0 is 100); a cosine lies in -100..100.                                *)
(* None.  Python's None is a sentinel of the type it stands in for.        *)
(***************************************************************************)
EXTENDS Integers, Sequences, FiniteSets, TLC

---------------------------------------------------------------------------
(* Python values *)

\* None where an int is expected (top_n=None)
None == -1

\* None where a str is expected (user_description=None)
NoneStr == <<"None">>

\* None where a list of dicts is expected (programs=None)
NoneList == <<[None |-> TRUE]>>

\* Python truthiness of an Optional[str], an Optional[list], an Optional[int]
TruthyStr(v) == v # <<>> /\ v # NoneStr

TruthyList(v) == v # <<>> /\ v # NoneList

TruthyInt(n) == n # None /\ n # 0

\* (v or "")
OrEmpty(v) == IF v = NoneStr THEN <<>> ELSE v

Min(a, b) == IF a <= b THEN a ELSE b

\* list[:n] for n >= 0
Prefix(s, n) == SubSeq(s, 1, Min(n, Len(s)))

\* the list (or str) a comprehension builds: every element evaluated, in order
List(f) == SubSeq(f, 1, Len(f))

\* str.lower(): only cased letters change
LowerChar(c) == IF c = "K" THEN "k" ELSE c

Lower(s) == List([i \in 1..Len(s) |-> LowerChar(s[i])])

\* str.replace(a, b) for one-character a and b
Replace(s, a, b) == List([i \in 1..Len(s) |-> IF s[i] = a THEN b ELSE s[i]])

\* kw in text (substring test)
Contains(text, kw) ==
    \E i \in 0..(Len(text) - Len(kw)) : \A j \in 1..Len(kw) : text[i + j] = kw[j]

\* str.split(): the maximal runs of non-whitespace characters, in order
RECURSIVE SplitFrom(_, _, _)
SplitFrom(s, i, cur) ==
    IF i > Len(s)
    THEN IF cur = <<>> THEN <<>> ELSE <<cur>>
    ELSE IF s[i] = " "
         THEN IF cur = <<>>
              THEN SplitFrom(s, i + 1, <<>>)
              ELSE <<cur>> \o SplitFrom(s, i + 1, <<>>)
         ELSE SplitFrom(s, i + 1, Append(cur, s[i]))

Split(s) == SplitFrom(s, 1, <<>>)

---------------------------------------------------------------------------
(* Words of the program *)

SP == <<" ">>

w_cafe == <<"ka", "pe">>                        \* 카페
w_online == <<"on", "ra", "in">>                \* 온라인
w_marketing == <<"ma", "ke", "ting">>           \* 마케팅
w_gunsan == <<"gun", "san">>                    \* 군산
w_jeonbuk == <<"jeon", "buk">>                  \* 전북
w_seoul == <<"seo", "ul">>                      \* 서울
w_export == <<"su", "chul">>                    \* 수출
w_jeoneun == <<"jeo", "neun">>                  \* 저는
w_jiwon == <<"ji", "won">>                      \* 지원
w_kcafe == <<"K", "ka", "pe">>                  \* K카페

\* the nationwide marker 전국
NATIONWIDE == <<"jeon", "guk">>

stopwords ==
    { <<"jeo", "neun">>, <<"jeo">>, <<"na", "neun">>, <<"na">>,
      <<"iss", "neun">>, <<"ha", "neun">>, <<"iss", "eo", "yo">>,
      <<"hap", "ni", "da">>, <<"hae", "yo">>, <<"sip", "eo", "yo">>,
      <<"sip", "seup", "ni", "da">>, <<"iss", "seup", "ni", "da">>,
      <<"ip", "ni", "da">>, <<"e", "seo">>, <<"eu", "ro">>, <<"i", "go">>,
      <<"ha", "go">>, <<"geu", "ri", "go">>, <<"tto", "han">>,
      <<"wi", "hae">>, <<"tong", "hae">>, <<"dae", "han">>,
      <<"gwan", "han">>, <<"e", "ge">>, <<"ji", "won", "sa", "eop">>,
      <<"ji", "won">>, <<"sa", "eop">>, <<"so", "sang", "gong", "in">> }

REGION_KEYWORDS ==
    { <<"seo", "ul">>, <<"bu", "san">>, <<"dae", "gu">>, <<"in", "cheon">>,
      <<"gwang", "ju">>, <<"dae", "jeon">>, <<"ul", "san">>, <<"se", "jong">>,
      <<"gyeong", "gi">>, <<"gang", "won">>, <<"chung", "buk">>,
      <<"chung", "nam">>, <<"jeon", "buk">>, <<"jeon", "nam">>,
      <<"gyeong", "buk">>, <<"gyeong", "nam">>, <<"je", "ju">>,
      <<"jeon", "ra", "buk", "do">>, <<"jeon", "ra", "nam", "do">>,
      <<"gyeong", "sang", "buk", "do">>, <<"gyeong", "sang", "nam", "do">>,
      <<"chung", "cheong", "buk", "do">>, <<"chung", "cheong", "nam", "do">>,
      <<"gang", "won", "do">>, <<"gyeong", "gi", "do">>, <<"je", "ju", "do">>,
      <<"je", "ju", "teuk", "byeol", "ja", "chi", "do">> }

---------------------------------------------------------------------------
(* Pure functions of semantic_filter.py *)

\* program.get(field, "")
Get(program, field) == IF field \in DOMAIN program THEN program[field] ELSE <<>>

\* " ".join(parts)
RECURSIVE JoinSp(_)
JoinSp(parts) ==
    IF parts = <<>> THEN <<>>
    ELSE IF Len(parts) = 1 THEN parts[1]
    ELSE parts[1] \o SP \o JoinSp(Tail(parts))

create_program_text(program) ==
    LET parts == << Get(program, "title"), Get(program, "description"),
                    Get(program, "target"), Get(program, "category"),
                    Get(program, "agency") >>
    IN JoinSp(SelectSeq(parts, LAMBDA x : TruthyStr(x)))

\* > for >= in the length test
extract_keywords_LongerThanTwo(user_description) ==
    LET words == Split(Replace(Replace(user_description, ",", " "), ".", " "))
    IN SelectSeq(words, LAMBDA word : Len(word) > 2 /\ word \notin stopwords)

extract_keywords(user_description) ==
    LET words == Split(Replace(Replace(user_description, ",", " "), ".", " "))
    IN SelectSeq(words, LAMBDA word : Len(word) >= 2 /\ word \notin stopwords)

\* the keyword compared without kw.lower()
check_keyword_match_CaseSensitive(keywords, title, description, target) ==
    LET full_text == Lower(OrEmpty(title)) \o SP \o Lower(OrEmpty(description))
                     \o SP \o Lower(OrEmpty(target))
    IN SelectSeq(keywords, LAMBDA kw : Contains(full_text, kw))

check_keyword_match(keywords, title, description, target) ==
    LET title_lower == Lower(OrEmpty(title))
        desc_lower == Lower(OrEmpty(description))
        target_lower == Lower(OrEmpty(target))
        full_text == title_lower \o SP \o desc_lower \o SP \o target_lower
    IN SelectSeq(keywords, LAMBDA kw : Contains(full_text, Lower(kw)))

\* a city counted as a region name
is_region_keyword_WithCities(keyword) ==
    keyword \in REGION_KEYWORDS \cup {w_gunsan}

is_region_keyword(keyword) == keyword \in REGION_KEYWORDS

\* the nationwide marker forgotten
check_region_match_NoNationwide(region_keyword, title, description, target) ==
    Contains(Lower(OrEmpty(title) \o SP \o OrEmpty(description)
                   \o SP \o OrEmpty(target)),
             Lower(region_keyword))

check_region_match(region_keyword, title, description, target) ==
    LET full_text == Lower(OrEmpty(title) \o SP \o OrEmpty(description)
                           \o SP \o OrEmpty(target))
        region_lower == Lower(region_keyword)
    IN \/ Contains(full_text, region_lower)
       \/ Contains(full_text, NATIONWIDE)

\* tuple comparison a < b of two keys of the same length
KeyLess(a, b) ==
    \E k \in 1..Len(a) : a[k] < b[k] /\ \A m \in 1..(k - 1) : a[m] = b[m]

\* the element with key x goes before the one with key y in the sorted order
Before(x, y, reverse) == IF reverse THEN KeyLess(y, x) ELSE KeyLess(x, y)

\* a sort that is not stable: elements with equal keys change places
list_sort_TiesReversed(items, keys, reverse) ==
    LET n == Len(items)
        ahead(j, i) == \/ Before(keys[j], keys[i], reverse)
                       \/ ~Before(keys[i], keys[j], reverse) /\ j > i
        pos == List([i \in 1..n |->
                        1 + Cardinality({ j \in 1..n : ahead(j, i) })])
    IN List([p \in 1..n |-> items[CHOOSE i \in 1..n : pos[i] = p]])

\* list.sort(key=..., reverse=...): keys[i] is the key of items[i].  The sort
\* is stable: elements neither of which goes before the other keep their order.
list_sort(items, keys, reverse) ==
    LET n == Len(items)
        ahead(j, i) == \/ Before(keys[j], keys[i], reverse)
                       \/ ~Before(keys[i], keys[j], reverse) /\ j < i
        pos == List([i \in 1..n |->
                        1 + Cardinality({ j \in 1..n : ahead(j, i) })])
    IN List([p \in 1..n |-> items[CHOOSE i \in 1..n : pos[i] = p]])

\* line 144: the keywords found in the candidate's title, description, target
matched_keywords(keywords, program) ==
    check_keyword_match(keywords, Get(program, "title"),
                        Get(program, "description"), Get(program, "target"))

\* line 155
region_keywords_in_search(keywords) ==
    SelectSeq(keywords, LAMBDA kw : is_region_keyword(kw))

\* the region check skipped, as in any-match mode
region_matched_NoFilter(keywords, program) == TRUE

\* lines 156-171: the value of region_matched after the region check
region_matched(keywords, program) ==
    LET rks == region_keywords_in_search(keywords)
    IN IF rks # <<>>
       THEN \E j \in 1..Len(rks) :
                check_region_match(rks[j], Get(program, "title"),
                                   Get(program, "description"),
                                   Get(program, "target"))
       ELSE TRUE

\* the bonus without its cap
bonus_Uncapped(n, match_all) == n * 10

\* lines 178 and 191: min(len(matched_keywords) * 0.1, cap)
bonus(n, match_all) == Min(n * 10, IF match_all THEN 50 ELSE 30)

\* lines 179 and 192: min(float(score) + bonus, 1.0)
fused(score, n, match_all) == Min(score + bonus(n, match_all), 100)

\* > for >=
passes_min_score_Strict(score, min_score) == score > min_score

\* line 197: elif score >= min_score
passes_min_score(score, min_score) == score >= min_score

\* every matched candidate flagged, as in any-match mode
is_exact_match_AnyMatched(n, total, match_all) == TRUE

\* the all-match rule used in both modes
is_exact_match_AllKeywords(n, total, match_all) == n = total

\* lines 183 and 194: is_exact_match of a candidate with n matched keywords,
\* total being len(keywords)
is_exact_match(n, total, match_all) == IF match_all THEN n = total ELSE TRUE

\* lines 140-200, one pass of the loop body: the list the candidate's copy is
\* appended to ("exact", "similar", or "drop" for none) and the copy
\* (program.copy() with the derived fields set on that path)
loop_body(program, score, keywords, min_score, match_all) ==
    LET matched == matched_keywords(keywords, program)
        n == Len(matched)
    IN IF match_all
       THEN IF matched # <<>>
            THEN LET region_ok == region_matched(keywords, program)
                 IN [tier |-> IF region_ok THEN "exact" ELSE "drop",
                     copy |-> [similarity_score |-> fused(score, n, TRUE),
                               matched_keywords |-> matched,
                               matched_count |-> n,
                               total_keywords |-> Len(keywords),
                               is_exact_match |->
                                   is_exact_match(n, Len(keywords), TRUE),
                               region_matched |-> region_ok]
                              @@ program]
            ELSE [tier |-> "drop",
                  copy |-> [similarity_score |-> score] @@ program]
       ELSE IF matched # <<>>
            THEN [tier |-> "exact",
                  copy |-> [similarity_score |-> fused(score, n, FALSE),
                            matched_keywords |-> matched,
                            matched_count |-> n,
                            is_exact_match |-> is_exact_match(n, Len(keywords), FALSE)]
                           @@ program]
            ELSE IF passes_min_score(score, min_score)
                 THEN [tier |-> "similar",
                       copy |-> [similarity_score |-> score,
                                 is_exact_match |-> FALSE,
                                 matched_count |-> 0]
                                @@ program]
                 ELSE [tier |-> "drop",
                       copy |-> [similarity_score |-> score] @@ program]

\* x.get("matched_count", 0)
GetCount(x) == IF "matched_count" \in DOMAIN x THEN x.matched_count ELSE 0

\* the two sort keys swapped
exact_key_ScoreFirst(x) == << -x.similarity_score, -GetCount(x) >>

\* line 203: key of exact_match_programs.sort
exact_key(x) == << -GetCount(x), -x.similarity_score >>

\* the key negated although the sort is already reversed
similar_key_Negated(x) == << -x.similarity_score >>

\* line 206: key of similar_programs.sort (reverse=True)
similar_key(x) == << x.similarity_score >>

\* the exact-match tier appended a second time
concat_tiers_ExactTwice(exact_match_programs, similar_programs) ==
    exact_match_programs \o similar_programs \o exact_match_programs

\* the tiers joined the wrong way round
concat_tiers_SimilarFirst(exact_match_programs, similar_programs) ==
    similar_programs \o exact_match_programs

\* line 209: exact_match_programs + similar_programs
concat_tiers(exact_match_programs, similar_programs) ==
    exact_match_programs \o similar_programs

\* lines 136-209: the local list `result`, each copy paired with the index
\* (src) of the input candidate it is the copy of
Ranked(keywords, programs, similarities, min_score, match_all) ==
    LET body == List([i \in 1..Len(programs) |->
                         [src |-> i] @@
                         loop_body(programs[i], similarities[i], keywords,
                                   min_score, match_all)])
        exact_match_programs == SelectSeq(body, LAMBDA b : b.tier = "exact")
        similar_programs == SelectSeq(body, LAMBDA b : b.tier = "similar")
        exact_sorted ==
            list_sort(exact_match_programs,
                      List([k \in 1..Len(exact_match_programs) |->
                               exact_key(exact_match_programs[k].copy)]),
                      FALSE)
        similar_sorted ==
            list_sort(similar_programs,
                      List([k \in 1..Len(similar_programs) |->
                               similar_key(similar_programs[k].copy)]),
                      TRUE)
    IN concat_tiers(exact_sorted, similar_sorted)

\* the derived fields written to the input records themselves
input_after_loop_NoCopy(programs, ranked) ==
    [i \in 1..Len(programs) |->
        IF \E k \in 1..Len(ranked) : ranked[k].src = i
        THEN ranked[CHOOSE k \in 1..Len(ranked) : ranked[k].src = i].copy
        ELSE programs[i]]

\* lines 139-141: program_copy = program.copy(); every write of the loop goes
\* to program_copy and the sorts reorder the new lists, so the list passed in
\* is after the loop what it was before
input_after_loop(programs, ranked) == programs

\* the handle tested for nothing: every call loads
needs_load_Always(m) == TRUE

\* line 18: _model is None
needs_load(m) == m = "None"

\* lines 116-118 and 211-213: `if top_n: return l[:top_n]` / `return l`
Truncate(l, top_n) == IF TruthyInt(top_n) THEN Prefix(l, top_n) ELSE l

---------------------------------------------------------------------------
(* Inputs *)

\* the longest candidate list a caller passes
MaxProgs == 2

\* the number of tokens of the longest query (Example 4 of the design)
ManyKeywords == 10

RECURSIVE Repeat(_, _)
Repeat(word, n) ==
    IF n = 0 THEN <<>>
    ELSE IF n = 1 THEN word
    ELSE word \o SP \o Repeat(word, n - 1)

\* "", None, "군산 카페", "전북 카페", "K카페,온라인.마케팅",
\* "저는 지원" (stop-words only), "카페 카페 ... 카페", "저는 K, 카페"
Queries ==
    { <<>>, NoneStr,
      w_gunsan \o SP \o w_cafe,
      w_jeonbuk \o SP \o w_cafe,
      w_kcafe \o <<",">> \o w_online \o <<".">> \o w_marketing,
      w_jeoneun \o SP \o w_jiwon,
      Repeat(w_cafe, ManyKeywords),
      w_jeoneun \o SP \o <<"K", ",", " ">> \o w_cafe }

\* "서울 k카페" / "온라인 마케팅", the other fields absent
p_seoul ==
    [title |-> w_seoul \o SP \o <<"k">> \o w_cafe,
     description |-> w_online \o SP \o w_marketing]

\* "전북 서울 카페", the other fields empty
p_both ==
    [title |-> w_jeonbuk \o SP \o w_seoul \o SP \o w_cafe, description |-> <<>>,
     target |-> <<>>, category |-> <<>>, agency |-> <<>>]

\* "카페" for target "전국"
p_nation == [title |-> w_cafe, target |-> NATIONWIDE]

\* "수출", description None, category "카페", agency "전국"
p_export ==
    [title |-> w_export, description |-> NoneStr, category |-> w_cafe,
     agency |-> NATIONWIDE]

\* the program records callers pass: a field may be absent, empty or None
Catalog == { p_seoul, p_both, p_nation, p_export }

ProgramLists ==
    {NoneList} \cup UNION { [1..n -> Catalog] : n \in 0..MaxProgs }

\* raw cosine similarities the scorer returns
Sims == {-50, 20, 95}

TopNs == {None, 0, 1}

MinScores == {20, 50}

---------------------------------------------------------------------------
(* State *)

VARIABLES
    model,              \* _model: "None" or "loaded"
    loads,              \* number of SentenceTransformer(MODEL_NAME) calls made
    pc,                 \* "idle", "returned" (a call returned), "raised"
    user_description,   \* the arguments of the last call
    programs,
    top_n,
    min_score,
    match_all,
    keywords,           \* the local list `keywords` (line 123)
    similarities,       \* cosine_similarity(...)[0] of the last call
    result,             \* the local list `result` (line 209)
    origin,             \* origin[k]: index in programs of the candidate result[k] copies
    ret,                \* the value the last call returned
    passed,             \* the candidate list as the caller passed it to the last call
    prev,               \* the remembered earlier call (arguments, cosines, outcome)
    tpc,                \* tpc[t]: the line of get_model thread t is at
    sort_option,        \* app.py: the sort option the results are shown under
    displayed,          \* app.py: the local list `results` after the sort
    fpc,                \* fetch_all_pages: "idle", "while", "return"
    max_pages,          \* fetch_all_pages: the argument max_pages
    page,               \* fetch_all_pages: the local page
    page_programs,      \* fetch_all_pages: the local programs (the last page)
    all_programs,       \* fetch_all_pages: the local all_programs
    seen_titles,        \* fetch_all_pages: the local seen_titles
    fetches             \* the calls of fetch_support_programs made so far:
                        \* the page asked for, the number of records got

\* the locals of fetch_all_pages
fetch_vars == << fpc, max_pages, page, page_programs, all_programs,
                 seen_titles, fetches >>

\* the arguments, locals and outcome of filter_by_similarity and what its
\* caller keeps of them
call_vars == << pc, user_description, programs, top_n, min_score, match_all,
               keywords, similarities, result, origin, ret, passed, prev,
               sort_option, displayed >>

vars == << model, loads, tpc, call_vars, fetch_vars >>

\* fetch_all_pages is not running
NoFetch ==
    /\ fpc = "idle"
    /\ max_pages = 0
    /\ page = 0
    /\ page_programs = <<>>
    /\ all_programs = <<>>
    /\ seen_titles = {}
    /\ fetches = <<>>

\* no call is remembered
NoPrev == [call |-> FALSE]

\* no thread is inside get_model
NoThreads == <<>>

NoFrame ==
    /\ user_description' = <<>>
    /\ passed' = <<>>
    /\ programs' = <<>>
    /\ top_n' = None
    /\ min_score' = 0
    /\ match_all' = FALSE
    /\ keywords' = <<>>
    /\ similarities' = <<>>
    /\ result' = <<>>
    /\ origin' = <<>>
    /\ ret' = <<>>
    /\ sort_option' = "None"
    /\ displayed' = <<>>

Init ==
    /\ model = "None"
    /\ loads = 0
    /\ pc = "idle"
    /\ user_description = <<>>
    /\ programs = <<>>
    /\ top_n = None
    /\ min_score = 0
    /\ match_all = FALSE
    /\ keywords = <<>>
    /\ similarities = <<>>
    /\ result = <<>>
    /\ origin = <<>>
    /\ ret = <<>>
    /\ passed = <<>>
    /\ prev = NoPrev
    /\ tpc = NoThreads
    /\ sort_option = "None"
    /\ displayed = <<>>
    /\ NoFetch

SetArgs(q, ps, n, ms, ma) ==
    /\ user_description' = q
    /\ passed' = ps
    /\ top_n' = n
    /\ min_score' = ms
    /\ match_all' = ma

\* lines 115-118: empty or None input
ShortCircuit(q, ps, ns, ms, ma) ==
    /\ ~TruthyList(ps) \/ ~TruthyStr(q)
    /\ \E n \in ns :
          /\ SetArgs(q, ps, n, ms, ma)
          /\ ret' = IF TruthyList(ps) THEN Truncate(ps, n) ELSE <<>>
    /\ programs' = ps
    /\ keywords' = <<>>
    /\ similarities' = <<>>
    /\ result' = <<>>
    /\ origin' = <<>>
    /\ pc' = "returned"
    /\ UNCHANGED << model, loads, sort_option, displayed >>

\* lines 126-133: the scorer is a function of the text; candidates with the
\* same composite text get the same cosine
Deterministic(ps, sims) ==
    \A i, j \in 1..Len(ps) :
        create_program_text(ps[i]) = create_program_text(ps[j])
            => sims[i] = sims[j]

\* lines 15-20 and 120-213: the model is there or loads, the scorer returns
\* sims, the candidates are scored and sorted, the list is truncated
Rank(q, kws, ps, ns, ms, ma, sims) ==
    /\ TruthyList(ps) /\ TruthyStr(q)
    /\ model' = "loaded"
    /\ loads' = IF needs_load(model) THEN loads + 1 ELSE loads
    /\ keywords' = kws
    /\ similarities' = sims
    /\ LET ranked == Ranked(kws, ps, sims, ms, ma)
           copies == [k \in 1..Len(ranked) |-> ranked[k].copy]
       IN /\ programs' = input_after_loop(ps, ranked)
          /\ result' = copies
          /\ origin' = [k \in 1..Len(ranked) |-> ranked[k].src]
          /\ \E n \in ns :
                /\ SetArgs(q, ps, n, ms, ma)
                /\ ret' = Truncate(copies, n)
    /\ pc' = "returned"
    /\ UNCHANGED << sort_option, displayed >>

\* the failure swallowed: the candidates are returned unranked
LoadFails_Fallback(q, ps) ==
    /\ TruthyList(ps) /\ TruthyStr(q)
    /\ model = "None"
    /\ SetArgs(q, ps, None, 20, FALSE)
    /\ programs' = ps
    /\ keywords' = <<>>
    /\ similarities' = <<>>
    /\ result' = ps
    /\ origin' = [k \in 1..Len(ps) |-> k]
    /\ ret' = ps
    /\ pc' = "returned"
    /\ UNCHANGED << model, loads, sort_option, displayed >>

\* line 19 raises: the exception leaves filter_by_similarity at line 120
LoadFails(q, ps) ==
    /\ TruthyList(ps) /\ TruthyStr(q)
    /\ model = "None"
    /\ NoFrame
    /\ pc' = "raised"
    /\ UNCHANGED << model, loads >>

\* the caller is done with the outcome of the call; the process lives on
Return ==
    /\ pc \in {"returned", "raised"}
    /\ NoFrame
    /\ pc' = "idle"
    /\ UNCHANGED << model, loads >>

Done == Return /\ UNCHANGED << prev, tpc, fetch_vars >>

\* a call of filter_by_similarity with a query of queries, a candidate list
\* of lists, top_n of ns, min_score of mss, match_all of mas; keywords is
\* line 123
CallWith(queries, lists, ns, mss, mas) ==
    /\ pc = "idle"
    /\ \E q \in queries :
          LET kws == extract_keywords(q)
          IN \E ps \in lists, ms \in mss, ma \in mas :
                \/ ShortCircuit(q, ps, ns, ms, ma)
                \/ \E sims \in [1..Len(ps) -> Sims] :
                       /\ Deterministic(ps, sims)
                       /\ Rank(q, kws, ps, ns, ms, ma, sims)
                \/ LoadFails(q, ps)

Call == CallWith(Queries, ProgramLists, TopNs, MinScores, BOOLEAN)

filter_by_similarity == Call /\ UNCHANGED << prev, tpc, fetch_vars >>

Next == filter_by_similarity \/ Done

Spec == Init /\ [][Next]_vars

---------------------------------------------------------------------------
(* The same call made twice *)

\* the call just made is remembered: its arguments, the cosines the scorer
\* returned, its outcome, and whether _model was None when it began
Remember ==
    prev' = [call |-> TRUE, again |-> FALSE, cold |-> (model = "None"),
             returned |-> (pc' = "returned"),
             user_description |-> user_description', programs |-> passed',
             top_n |-> top_n', min_score |-> min_score',
             match_all |-> match_all', similarities |-> similarities',
             result |-> result', origin |-> origin', ret |-> ret']

\* the queries of the calls that are made twice: "" and "군산 카페"
RepeatQueries == { <<>>, w_gunsan \o SP \o w_cafe }

\* a call whose outcome the caller keeps
FirstCall ==
    /\ ~prev.call
    /\ CallWith(RepeatQueries, ProgramLists, TopNs, MinScores, BOOLEAN)
    /\ Remember
    /\ UNCHANGED << tpc, fetch_vars >>

\* the caller drops the outcome it kept
Forget ==
    /\ prev.call
    /\ ~prev.again
    /\ Return
    /\ prev' = NoPrev
    /\ UNCHANGED << tpc, fetch_vars >>

\* the remembered call made again: the same arguments, and the scorer, a
\* function of the texts, returns the same cosines
Again ==
    /\ pc = "idle"
    /\ prev.call
    /\ prev.returned
    /\ ~prev.again
    /\ \/ ShortCircuit(prev.user_description, prev.programs, {prev.top_n},
                       prev.min_score, prev.match_all)
       \/ Rank(prev.user_description, extract_keywords(prev.user_description),
               prev.programs, {prev.top_n}, prev.min_score, prev.match_all,
               prev.similarities)
    /\ prev' = [prev EXCEPT !.again = TRUE]
    /\ UNCHANGED << tpc, fetch_vars >>

RepeatNext == FirstCall \/ Again \/ Done \/ Forget

SpecRepeat == Init /\ [][RepeatNext]_vars

---------------------------------------------------------------------------
(* get_model called by several threads *)

\* the threads of the host that call filter_by_similarity
NThreads == 3

Threads == 1..NThreads

\* the calls of get_model one thread makes
MaxCalls == 2

\* everything but _model, the load count and the threads' positions
frame == << call_vars, fetch_vars >>

ThreadInit ==
    /\ model = "None"
    /\ loads = 0
    /\ pc = "idle"
    /\ user_description = <<>>
    /\ programs = <<>>
    /\ top_n = None
    /\ min_score = 0
    /\ match_all = FALSE
    /\ keywords = <<>>
    /\ similarities = <<>>
    /\ result = <<>>
    /\ origin = <<>>
    /\ ret = <<>>
    /\ passed = <<>>
    /\ prev = NoPrev
    /\ tpc = [t \in Threads |-> [line |-> 0, calls |-> 0]]
    /\ sort_option = "None"
    /\ displayed = <<>>
    /\ NoFetch

\* line 120: thread t calls get_model
get_model(t) ==
    /\ tpc[t].line = 0
    /\ tpc[t].calls < MaxCalls
    /\ tpc' = [tpc EXCEPT ![t] = [line |-> 18, calls |-> @.calls + 1]]
    /\ UNCHANGED << model, loads, frame >>

\* line 18: if _model is None
get_model_18(t) ==
    /\ tpc[t].line = 18
    /\ tpc' = [tpc EXCEPT ![t].line = IF needs_load(model) THEN 19 ELSE 20]
    /\ UNCHANGED << model, loads, frame >>

\* line 19: _model = SentenceTransformer(MODEL_NAME)
get_model_19(t) ==
    /\ tpc[t].line = 19
    /\ loads' = loads + 1
    /\ model' = "loaded"
    /\ tpc' = [tpc EXCEPT ![t].line = 20]
    /\ UNCHANGED frame

\* line 20: return _model
get_model_20(t) ==
    /\ tpc[t].line = 20
    /\ tpc' = [tpc EXCEPT ![t].line = 0]
    /\ UNCHANGED << model, loads, frame >>

ThreadNext ==
    \E t \in Threads :
        get_model(t) \/ get_model_18(t) \/ get_model_19(t) \/ get_model_20(t)

ThreadSpec == ThreadInit /\ [][ThreadNext]_vars

---------------------------------------------------------------------------
(* The app: a free-description search and the display of its results *)

\* app.py line 166: top_n=30
AppTopN == 30

\* app.py line 167: min_score=0.2
AppMinScore == 20

\* the descriptions typed into the app: "   " (stripped to ""), "전북 카페",
\* "저는 지원"
AppQueries ==
    { <<>>, w_jeonbuk \o SP \o w_cafe, w_jeoneun \o SP \o w_jiwon }

\* a record as parse_json_response builds it: all eight fields present
program(title, description, target) ==
    [title |-> title, target |-> target, agency |-> <<>>, category |-> <<>>,
     start_date |-> <<>>, end_date |-> <<>>, link |-> <<>>,
     description |-> description]

\* "서울 k카페" / "온라인 마케팅"; "전북 서울 카페"; "수출" for "전국"
AppCatalog ==
    { program(w_seoul \o SP \o <<"k">> \o w_cafe, w_online \o SP \o w_marketing,
              <<>>),
      program(w_jeonbuk \o SP \o w_seoul \o SP \o w_cafe, <<>>, <<>>),
      program(w_export, <<>>, NATIONWIDE) }

\* the lists fetch_support_programs or get_dummy_data hand to the app
AppLists == UNION { [1..n -> AppCatalog] : n \in 0..MaxProgs }

\* the options the selectbox offers when show_similarity is set:
\* "관련도순", "마감 임박순", "가나다순"
SortOptions == { "relevance", "deadline", "alphabetical" }

\* ord(c) of the characters of the titles
ord(c) ==
    CASE c = " " -> 32
      [] c = "K" -> 75
      [] c = "k" -> 107
      [] c = "buk" -> 48513
      [] c = "seo" -> 49436
      [] c = "su" -> 49688
      [] c = "ul" -> 50872
      [] c = "jeon" -> 51204
      [] c = "chul" -> 52636
      [] c = "ka" -> 52852
      [] c = "pe" -> 54168

\* app.py line 226: key x.get("title", ""); str compares by code points, a
\* proper prefix first (width is the length of the longest title compared)
title_key(x, width) ==
    LET title == Get(x, "title")
    IN List([i \in 1..width |-> IF i <= Len(title) THEN ord(title[i]) ELSE 0])

\* app.py lines 233-236: key (0 if x.get("is_exact_match") else 1,
\* -x.get("similarity_score", 0))
relevance_key(x) ==
    << IF "is_exact_match" \in DOMAIN x /\ x.is_exact_match THEN 0 ELSE 1,
       IF "similarity_score" \in DOMAIN x THEN -x.similarity_score ELSE 0 >>

\* app.py lines 225-238: the results under a sort option; "마감 임박순" sorts
\* nothing
sorted_results(results, option) ==
    LET n == Len(results)
        width == CHOOSE w \in 0..100 :
                     /\ \A i \in 1..n : Len(Get(results[i], "title")) <= w
                     /\ \/ w = 0
                        \/ \E i \in 1..n : Len(Get(results[i], "title")) = w
    IN IF option = "alphabetical"
       THEN list_sort(results, [i \in 1..n |-> title_key(results[i], width)],
                      FALSE)
       ELSE IF option = "relevance"
            THEN list_sort(results, [i \in 1..n |-> relevance_key(results[i])],
                           FALSE)
            ELSE results

\* app.py lines 134-188: the search button in free-description mode
Search ==
    /\ CallWith(AppQueries, AppLists, {AppTopN}, {AppMinScore}, {FALSE})
    /\ UNCHANGED << prev, tpc, fetch_vars >>

\* app.py lines 191-238: the stored results shown under a sort option
Display ==
    /\ pc = "returned"
    /\ TruthyList(ret)
    /\ \E option \in SortOptions :
          /\ sort_option' = option
          /\ displayed' = sorted_results(ret, option)
    /\ UNCHANGED << model, loads, pc, user_description, programs, top_n,
                    min_score, match_all, keywords, similarities, result,
                    origin, ret, passed, prev, tpc, fetch_vars >>

AppNext == Search \/ Display \/ Done

AppSpec == Init /\ [][AppNext]_vars

---------------------------------------------------------------------------
(* fetch_all_pages (src/api_client.py) *)

\* line 199: page_size = 100
page_size == 100

\* the largest max_pages a caller passes
MaxPages == 2

\* the records of the upstream pages: two of the same title, one of another
\* title, one of an empty title
FetchCatalog ==
    { program(w_cafe, <<>>, <<>>), program(w_cafe, w_online, <<>>),
      program(w_export, <<>>, <<>>), program(<<>>, w_marketing, <<>>) }

\* a page of n records: a, b, a, b, ...
Page(n, a, b) == [i \in 1..n |-> IF i % 2 = 1 THEN a ELSE b]

\* what fetch_support_programs returns for a page: [] (no more data, no API
\* key, a timeout, a request error), a page of fewer than page_size records,
\* a full page, a page of more records than were asked for
Responses ==
    { Page(n, a, b) :
        n \in {0, page_size - 1, page_size, page_size + 1},
        a \in FetchCatalog, b \in FetchCatalog }

\* the seen_titles test left out
is_new_title_NeverSeen(title, seen) == TruthyStr(title)

\* line 215: title and title not in seen_titles
is_new_title(title, seen) == TruthyStr(title) /\ title \notin seen

\* lines 214-217: the body of the for loop for one program
for_body(program_i, acc) ==
    LET title == Get(program_i, "title")
    IN IF is_new_title(title, acc.seen_titles)
       THEN [all_programs |-> Append(acc.all_programs, program_i),
             seen_titles |-> acc.seen_titles \cup {title}]
       ELSE acc

\* lines 213-217: the for loop over ps[lo], ..., ps[hi], in that order: the
\* first half of the range is gone through (all_programs only grows) before
\* the second half begins
RECURSIVE for_program(_, _, _, _)
for_program(ps, lo, hi, acc) ==
    IF lo > hi THEN acc
    ELSE IF lo = hi THEN for_body(ps[lo], acc)
    ELSE LET mid == (lo + hi) \div 2
             first == for_program(ps, lo, mid, acc)
         IN IF Len(first.all_programs) >= Len(acc.all_programs)
            THEN for_program(ps, mid + 1, hi, first)
            ELSE first

\* lines 196-199: the call begins
fetch_all_pages ==
    /\ fpc = "idle"
    /\ \E n \in 0..MaxPages : max_pages' = n
    /\ all_programs' = <<>>
    /\ seen_titles' = {}
    /\ page' = 1
    /\ page_programs' = <<>>
    /\ fetches' = <<>>
    /\ fpc' = "while"
    /\ UNCHANGED << model, loads, tpc, call_vars >>

\* lines 201-223: one turn of the while loop; the upstream answers the
\* request for the page with ps
while_page ==
    /\ fpc = "while"
    /\ page <= max_pages
    /\ \E ps \in Responses :
          /\ page_programs' = ps
          /\ fetches' = Append(fetches, [page |-> page, len |-> Len(ps)])
          /\ IF ~TruthyList(ps)
             THEN /\ fpc' = "return"
                  /\ UNCHANGED << all_programs, seen_titles, page >>
             ELSE LET after == for_program(ps, 1, Len(ps),
                                           [all_programs |-> all_programs,
                                            seen_titles |-> seen_titles])
                  IN /\ all_programs' = after.all_programs
                     /\ seen_titles' = after.seen_titles
                     /\ IF Len(ps) < page_size
                        THEN fpc' = "return" /\ page' = page
                        ELSE fpc' = "while" /\ page' = page + 1
    /\ UNCHANGED << max_pages, model, loads, tpc, call_vars >>

\* line 201: page <= max_pages is false
while_exit ==
    /\ fpc = "while"
    /\ page > max_pages
    /\ fpc' = "return"
    /\ UNCHANGED << max_pages, page, page_programs, all_programs, seen_titles,
                    fetches, model, loads, tpc, call_vars >>

\* line 225: return all_programs; the frame is gone
fetch_return ==
    /\ fpc = "return"
    /\ fpc' = "idle"
    /\ max_pages' = 0
    /\ page' = 0
    /\ page_programs' = <<>>
    /\ all_programs' = <<>>
    /\ seen_titles' = {}
    /\ fetches' = <<>>
    /\ UNCHANGED << model, loads, tpc, call_vars >>

FetchNext == fetch_all_pages \/ while_page \/ while_exit \/ fetch_return

\* every request is answered (requests.get has timeout=10) and the loop
\* goes on
FetchSpec ==
    /\ Init
    /\ [][FetchNext]_vars
    /\ WF_vars(while_page)
    /\ WF_vars(while_exit)

---------------------------------------------------------------------------
(* Properties *)

\* the last call reached scoring and returned
RankingCall ==
    /\ pc = "returned"
    /\ TruthyList(programs)
    /\ TruthyStr(user_description)

\* the keywords matched by input candidate i
MatchedOf(i) == matched_keywords(keywords, programs[i])

\* the input candidates that have a copy in the list l (a prefix of result)
SourcesOf(l) == { origin[k] : k \in 1..Len(l) }

\* C1: the final score (similarity_score after fusion) of every returned
\* candidate lies in [0,1], in both modes, for every raw cosine the scorer
\* returns, negative ones included.
C1_FinalScoreInUnitInterval ==
    RankingCall =>
        \A k \in 1..Len(ret) :
            0 <= ret[k].similarity_score /\ ret[k].similarity_score <= 100

\* C2: in any-match mode every returned candidate with at least one matched
\* keyword stands before every returned candidate with none, whatever the
\* raw similarities are.
C2_ExactTierFirst ==
    (RankingCall /\ ~match_all) =>
        \A i, j \in 1..Len(ret) :
            (MatchedOf(origin[i]) # <<>> /\ MatchedOf(origin[j]) = <<>>)
                => i < j

\* a matched candidate of lower score, later in the input, stands before an
\* unmatched one of higher score
C2_Witness ==
    /\ RankingCall /\ ~match_all
    /\ Len(ret) = 2
    /\ MatchedOf(origin[1]) # <<>> /\ MatchedOf(origin[2]) = <<>>
    /\ ret[1].similarity_score < ret[2].similarity_score
    /\ origin[1] > origin[2]

\* C3: when top_n is given (not None) the returned list has at most top_n
\* elements and is the prefix of the full ranked list; when top_n is None it
\* is the full ranked list.
C3_TruncationLaw ==
    RankingCall =>
        IF top_n # None
        THEN Len(ret) <= top_n /\ ret = Prefix(result, top_n)
        ELSE ret = result

\* C4: an empty or None query returns the input candidates, in input order
\* and unchanged, truncated to top_n if top_n is given; an empty or None
\* candidate list returns the empty list, for every query.
C4_EmptyInputShortCircuit ==
    pc = "returned" =>
        /\ ~TruthyList(programs) => ret = <<>>
        /\ (TruthyList(programs) /\ ~TruthyStr(user_description)) =>
               ret = IF top_n # None THEN Prefix(programs, top_n) ELSE programs

\* the text of input candidate i that lines 61 and 88 search, lower-cased
SearchedText(i) ==
    Lower(OrEmpty(Get(programs[i], "title")) \o SP
          \o OrEmpty(Get(programs[i], "description")) \o SP
          \o OrEmpty(Get(programs[i], "target")))

\* the composite text of input candidate i, lower-cased
CompositeText(i) == Lower(create_program_text(programs[i]))

\* the region keywords of the query, as a set
QueryRegions ==
    { keywords[j] : j \in { m \in 1..Len(keywords) : keywords[m] \in REGION_KEYWORDS } }

\* the composite text of candidate i names a region that is not one of the
\* query's, and does not hold the nationwide marker
NamesOtherRegion(i) ==
    /\ \E r \in REGION_KEYWORDS \ QueryRegions : Contains(CompositeText(i), r)
    /\ ~Contains(CompositeText(i), NATIONWIDE)

\* C5 as stated: in all-match mode with a region keyword in the query, a
\* candidate whose composite text names a region other than the query's and
\* does not hold "전국" is never in the output.
C5_OtherRegionNeverReturned ==
    (RankingCall /\ match_all /\ QueryRegions # {}) =>
        \A k \in 1..Len(ret) : ~NamesOtherRegion(origin[k])

\* C5 as amended: such a candidate is never in the output when its composite
\* text also names none of the query's region keywords.
C5_NoQueryRegionNeverReturned ==
    (RankingCall /\ match_all /\ QueryRegions # {}) =>
        \A k \in 1..Len(ret) :
            NamesOtherRegion(origin[k]) =>
                \E r \in QueryRegions : Contains(CompositeText(origin[k]), r)

\* a candidate of another region that matches the other keyword is left out
C5_Witness ==
    /\ RankingCall /\ match_all /\ QueryRegions # {}
    /\ \E i \in 1..Len(programs) :
          /\ NamesOtherRegion(i)
          /\ \A r \in QueryRegions : ~Contains(CompositeText(i), r)
          /\ MatchedOf(i) # <<>>
          /\ i \notin SourcesOf(result)

\* candidate i holds "카페" and neither "군산", "전북" nor "전국" in text
CafeOnly(text) ==
    /\ Contains(text, w_cafe)
    /\ ~Contains(text, w_gunsan)
    /\ ~Contains(text, w_jeonbuk)
    /\ ~Contains(text, NATIONWIDE)

C7_FusedScore ==
    RankingCall =>
        \A k \in 1..Len(ret) :
            LET n == Len(MatchedOf(origin[k]))
                s == similarities[origin[k]]
                cap == IF match_all THEN 50 ELSE 30
            IN n >= 1 =>
                /\ ret[k].similarity_score = Min(s + Min(10 * n, cap), 100)
                /\ bonus(n, match_all) <= bonus(n + 1, match_all)
                /\ bonus(n + 1, match_all) <= cap
                /\ (n = 10 /\ ~match_all) =>
                       ret[k].similarity_score = Min(s + 30, 100)

\* ten or more matched keywords in any-match mode, the score below 1.0
C7_Witness ==
    /\ RankingCall /\ ~match_all
    /\ \E k \in 1..Len(ret) :
          /\ Len(MatchedOf(origin[k])) >= 10
          /\ ret[k].similarity_score = similarities[origin[k]] + 30

\* C8: in the output the candidates with a matched keyword are ordered by
\* matched count descending, then by final score descending; in any-match
\* mode the candidates without one are ordered by final score descending.
C8_TierOrder ==
    RankingCall =>
        LET cnt == List([k \in 1..Len(ret) |-> Len(MatchedOf(origin[k]))])
        IN \A i, j \in 1..Len(ret) :
              i < j =>
                /\ (cnt[i] >= 1 /\ cnt[j] >= 1) =>
                       \/ cnt[i] > cnt[j]
                       \/ /\ cnt[i] = cnt[j]
                          /\ ret[i].similarity_score >= ret[j].similarity_score
                /\ (~match_all /\ cnt[i] = 0 /\ cnt[j] = 0) =>
                       ret[i].similarity_score >= ret[j].similarity_score

\* the count decides before the score: a later input candidate with more
\* matched keywords and a lower score stands first
C8_Witness ==
    /\ RankingCall
    /\ Len(ret) >= 2
    /\ Len(MatchedOf(origin[1])) > Len(MatchedOf(origin[2]))
    /\ Len(MatchedOf(origin[2])) >= 1
    /\ ret[1].similarity_score < ret[2].similarity_score
    /\ origin[1] > origin[2]

\* C9: in any-match mode the ranked list, before truncation, holds exactly
\* the candidates with a matched keyword or a raw similarity >= min_score,
\* each once: min_score and region never exclude a matched candidate.
C9_AnyMatchMembership ==
    (RankingCall /\ ~match_all) =>
        /\ SourcesOf(result) =
               { i \in 1..Len(programs) :
                   MatchedOf(i) # <<>> \/ similarities[i] >= min_score }
        /\ Cardinality(SourcesOf(result)) = Len(result)

\* a matched candidate of another region under min_score is kept, an
\* unmatched one under min_score is dropped
C9_Witness ==
    /\ RankingCall /\ ~match_all /\ QueryRegions # {}
    /\ \E i, j \in 1..Len(programs) :
          /\ MatchedOf(i) # <<>> /\ similarities[i] < min_score
          /\ \A r \in QueryRegions : ~Contains(SearchedText(i), r)
          /\ ~Contains(SearchedText(i), NATIONWIDE)
          /\ i \in SourcesOf(result)
          /\ MatchedOf(j) = <<>> /\ similarities[j] < min_score
          /\ j \notin SourcesOf(result)

\* candidate i passes the region test: the query names no region, or the
\* title, description or target holds one of the query's regions or "전국"
RegionCompatible(i) ==
    \/ QueryRegions = {}
    \/ \E r \in QueryRegions : Contains(SearchedText(i), Lower(r))
    \/ Contains(SearchedText(i), NATIONWIDE)

\* C10: in all-match mode the ranked list, before truncation, holds exactly
\* the candidates with a matched keyword that pass the region test, each
\* once; a candidate without a matched keyword is never returned.
C10_AllMatchMembership ==
    (RankingCall /\ match_all) =>
        /\ SourcesOf(result) =
               { i \in 1..Len(programs) :
                   MatchedOf(i) # <<>> /\ RegionCompatible(i) }
        /\ Cardinality(SourcesOf(result)) = Len(result)
        /\ \A k \in 1..Len(ret) : MatchedOf(origin[k]) # <<>>

\* an unmatched candidate of similarity above min_score is left out while a
\* matched one is returned
C10_Witness ==
    /\ RankingCall /\ match_all
    /\ ret # <<>>
    /\ \E i \in 1..Len(programs) :
          /\ MatchedOf(i) = <<>>
          /\ similarities[i] >= min_score
          /\ i \notin SourcesOf(result)

\* C11: in all-match mode a returned candidate has is_exact_match true if and
\* only if its matched count equals the number of keywords extracted from the
\* query, that is, every query keyword is contained in the text searched.
C11_ExactFlagAllMatch ==
    (RankingCall /\ match_all) =>
        \A k \in 1..Len(ret) :
            /\ ret[k].is_exact_match =
                   (Len(MatchedOf(origin[k])) = Len(keywords))
            /\ ret[k].is_exact_match =
                   (\A j \in 1..Len(keywords) :
                       Contains(SearchedText(origin[k]), Lower(keywords[j])))

\* one returned candidate holds every keyword, another only some of them
C11_Witness ==
    /\ RankingCall /\ match_all
    /\ \E k, m \in 1..Len(ret) :
          /\ ret[k].is_exact_match
          /\ ~ret[m].is_exact_match
          /\ ret[m].matched_count >= 1

C13_NoDuplicateKeywords ==
    RankingCall =>
        \A i, j \in 1..Len(keywords) : i < j => keywords[i] # keywords[j]

\* a comma, a period or a space
IsSeparator(c) == c \in {",", ".", " "}

\* the positions of the query where a token begins
TokenStarts ==
    { i \in 1..Len(user_description) :
        /\ ~IsSeparator(user_description[i])
        /\ i = 1 \/ IsSeparator(user_description[i - 1]) }

\* the token of the query that begins at position i
TokenAt(i) ==
    SubSeq(user_description, i,
           CHOOSE e \in i..Len(user_description) :
               /\ \A m \in i..e : ~IsSeparator(user_description[m])
               /\ e = Len(user_description) \/ IsSeparator(user_description[e + 1]))

\* the tokens of length >= 2 that are no stop-word
KeptStarts ==
    { i \in TokenStarts : Len(TokenAt(i)) >= 2 /\ TokenAt(i) \notin stopwords }

\* C14: the keywords are, in the order of the query, exactly the tokens of
\* the query (commas and periods replaced by spaces, split on whitespace)
\* that have length >= 2 and are not in the stop-word set.
C14_KeywordsAreKeptTokens ==
    RankingCall =>
        LET kept == KeptStarts
        IN /\ Len(keywords) = Cardinality(kept)
           /\ \A k \in 1..Len(keywords) :
                 \E i \in kept :
                     /\ Cardinality({ m \in kept : m < i }) = k - 1
                     /\ keywords[k] = TokenAt(i)

\* a query with a comma, a stop-word and a one-character token of which one
\* keyword is left
C14_Witness ==
    /\ RankingCall
    /\ keywords # <<>>
    /\ \E i \in 1..Len(user_description) : user_description[i] = ","
    /\ \E i \in TokenStarts : TokenAt(i) \in stopwords
    /\ \E i \in TokenStarts : Len(TokenAt(i)) < 2

\* the copy result[k] of input candidate i carries a matched_keywords list
ReportsMatched(k, i) ==
    origin[k] = i /\ "matched_keywords" \in DOMAIN result[k]

DerivedFields ==
    { "similarity_score", "matched_keywords", "matched_count", "total_keywords",
      "is_exact_match", "region_matched" }

C17_AtMostOneLoad == loads <= 1

\* C18: a call in which the model load fails ends with the failure passed
\* to the caller, returns no list, and leaves the model handle unset; no
\* ranked list is returned that was computed without the model.
C18_LoadFailurePropagates ==
    /\ pc = "raised" =>
          /\ model = "None"
          /\ loads = 0
          /\ ret = <<>>
          /\ result = <<>>
    /\ RankingCall => model = "loaded"

\* a call failed in the load
C18_Witness == pc = "raised" /\ model = "None" /\ ret = <<>>

\* C19: over any sequence of calls made one after the other, the model
\* handle starts unset, is set by the first call that returns a ranking, is
\* never unset again and never loaded again (at most one load), and a call
\* that short-circuits on empty input does not load it.
C19_LoadOnce ==
    /\ model = "None" /\ loads = 0
    /\ [][ /\ model = "loaded" => (model' = "loaded" /\ loads' = loads)
           /\ (pc = "idle" /\ RankingCall') =>
                 (model' = "loaded" /\ loads' = 1)
           /\ (pc = "idle" /\ pc' = "returned" /\ ~RankingCall') =>
                 (model' = model /\ loads' = loads)
         ]_vars
    /\ [](loads <= 1 /\ (model = "loaded" <=> loads = 1))

\* a call short-circuited after the model had been loaded, and left it loaded
C19_Witness ==
    /\ pc = "returned" /\ ~RankingCall
    /\ model = "loaded" /\ loads = 1

\* the returned candidates whose is_exact_match is true
Flagged == { k \in 1..Len(ret) : ret[k].is_exact_match }

\* the returned candidates of the exact-match tier
ExactTier == { k \in 1..Len(ret) : Len(MatchedOf(origin[k])) >= 1 }

\* C20 as stated: in both modes the number of returned candidates whose
\* is_exact_match is true equals the number of returned candidates with at
\* least one matched keyword.
C20_FlagCountIsTierSize ==
    RankingCall => Cardinality(Flagged) = Cardinality(ExactTier)

\* C20 as amended: in any-match mode the returned candidates whose
\* is_exact_match is true are exactly those with at least one matched
\* keyword; in all-match mode every returned candidate has a matched keyword
\* and is_exact_match is true only of those that match every keyword.
C20_FlagCountsTierInAnyMatch ==
    RankingCall =>
        IF match_all
        THEN /\ ExactTier = 1..Len(ret)
             /\ Flagged = { k \in 1..Len(ret) :
                              Len(MatchedOf(origin[k])) = Len(keywords) }
        ELSE /\ Flagged = ExactTier
             /\ Cardinality(Flagged) + 
                  Cardinality({ k \in 1..Len(ret) : MatchedOf(origin[k]) = <<>> })
                    = Len(ret)

\* any-match mode: a candidate that matches some of the keywords is counted,
\* an unmatched one is not
C20_Witness ==
    /\ RankingCall /\ ~match_all
    /\ \E k, m \in 1..Len(ret) :
          /\ ret[k].is_exact_match
          /\ ret[k].matched_count < Len(keywords)
          /\ ~ret[m].is_exact_match

\* C21: every returned candidate is a copy of one input candidate with all
\* its original fields and values, no input candidate (by position) is
\* returned more than once, and the output is never longer than the input.
C21_OutputFromInput ==
    pc = "returned" =>
        IF RankingCall
        THEN /\ \A k \in 1..Len(ret) :
                   /\ origin[k] \in 1..Len(passed)
                   /\ \A f \in DOMAIN passed[origin[k]] :
                         /\ f \in DOMAIN ret[k]
                         /\ ret[k][f] = passed[origin[k]][f]
             /\ \A k, m \in 1..Len(ret) : k # m => origin[k] # origin[m]
             /\ Len(ret) <= Len(passed)
        ELSE \/ ret = <<>>
             \/ /\ TruthyList(passed)
                /\ Len(ret) <= Len(passed)
                /\ \A k \in 1..Len(ret) : ret[k] = passed[k]

\* the same record passed at two positions is returned once for each
C21_Witness ==
    /\ RankingCall
    /\ Len(passed) = 2 /\ passed[1] = passed[2]
    /\ Len(ret) = 2
    /\ origin[1] # origin[2]

C23_RelevanceKeepsRankerOrder ==
    sort_option = "relevance" => displayed = ret

\* the input positions of the page ps whose record fetch_all_pages keeps:
\* the title is non-empty, no record kept before (old) has it, and no earlier
\* record of the page has it
KeptOf(ps, old) ==
    { i \in 1..Len(ps) :
        /\ ps[i].title # <<>>
        /\ \A k \in 1..Len(old) : old[k].title # ps[i].title
        /\ \A j \in 1..(i - 1) : ps[j].title # ps[i].title }

\* the pages asked for are 1, 2, 3, ..., at most max_pages of them; a page is
\* asked for only after full pages; the call returns after the first empty or
\* short page or after max_pages pages; the titles collected are non-empty
\* and pairwise different
FetchInv ==
    /\ Len(fetches) <= max_pages
    /\ \A k \in 1..Len(fetches) : fetches[k].page = k
    /\ \A k \in 1..(Len(fetches) - 1) : fetches[k].len >= page_size
    /\ fpc = "while" =>
          /\ \A k \in 1..Len(fetches) : fetches[k].len >= page_size
          /\ page = Len(fetches) + 1
    /\ fpc = "return" =>
          \/ Len(fetches) = max_pages
          \/ Len(fetches) > 0 /\ fetches[Len(fetches)].len < page_size
    /\ \A k \in 1..Len(all_programs) : all_programs[k].title # <<>>
    /\ \A k, m \in 1..Len(all_programs) :
          k # m => all_programs[k].title # all_programs[m].title

\* a page that was fetched adds its kept records, in page order, behind the
\* records collected before, which stay as they are
FetchKeepsFirst ==
    fetches' # fetches /\ fpc = "while" =>
        LET kept == KeptOf(page_programs', all_programs)
            n == Len(all_programs)
        IN /\ Len(all_programs') = n + Cardinality(kept)
           /\ SubSeq(all_programs', 1, n) = all_programs
           /\ \A i \in kept :
                 all_programs'[n + Cardinality({ j \in kept : j <= i })]
                     = page_programs'[i]

\* C24: for every sequence of upstream page responses fetch_all_pages
\* terminates after at most max_pages fetches, stops at the first page that
\* is empty or holds fewer than page_size records, asks for the pages 1, 2,
\* 3, ... in order, none skipped or repeated, and returns a list in which
\* every title is non-empty and occurs once, the first occurrence kept.
C24_FetchAllPages ==
    /\ []FetchInv
    /\ [][FetchKeepsFirst]_vars
    /\ (fpc = "while" ~> fpc = "return")

\* two pages were fetched, a full one and a short one; of the two records
\* titled "카페" the one of the first page is returned, the one of the second
\* page is not
C24_Witness ==
    /\ fpc = "return"
    /\ Len(fetches) = 2
    /\ fetches[1].len = page_size
    /\ fetches[2].len = page_size - 1
    /\ page_programs[1] = program(w_cafe, <<>>, <<>>)
    /\ all_programs = << program(w_cafe, w_online, <<>>),
                         program(w_export, <<>>, <<>>) >>

====
